---- MODULE Spec2Model ----
(***************************************************************************)
(* Model of statsd: the members table (sqlite), the MemberService and      *)
(* LeaderboardService built on it, the Slack reaction handlers that        *)
(* reconcile reaction events into per-member, per-month counters, and the  *)
(* monthly-update handler that posts the leaderboard of a month.           *)
(*                                                                         *)
(* Every SQL statement runs on the connection pool (db.query is            *)
(* gen.New(db.db)), never on the transaction the service methods open, so  *)
(* each statement is one atomic step and the steps of concurrent handlers  *)
(* interleave.                                                             *)
(***************************************************************************)
EXTENDS Integers, Sequences, FiniteSets, TLC

\* ---------------------------------------------------------------- bounds
MaxEvents == 2
MaxTicks == 1
MaxCreates == 1
MaxRequests == 1
MaxRepeats == 2
MaxCalls == 1
MaxUpdates == 2

\* ------------------------------------------------------------- constants
ThumbsUp == "+1"
ThumbsDown == "-1"

Nil == "nil"
ErrNotFound == "ErrNotFound"
ErrInvalid == "ErrInvalid"
ErrNoRows == "sql.ErrNoRows"
ErrConstraint == "sqlite3.ErrConstraintUnique"
ErrParse == "time.ParseError"
\* an error of the database itself: BeginTx, a statement or Commit fails
ErrStore == "store failure"

\* handler goroutines serving POST /events; an arriving request takes the first free one
Procs == {1, 2}

\* the wall clock counts months; month t is month (t % 12) + 1 of year t \div 12
StartTime == 2023 * 12 + 11

\* values of e.ItemUser and e.Reaction carried by the events
ItemUsers == {"U1", "U2", "USLACKBOT", ""}
Reactions == {ThumbsUp, ThumbsDown, "tada"}
EventTypes == {"reaction_added", "reaction_removed"}

\* the orders in which the engine may return rows with equal sort keys; Unknown until a
\* query has had to order such rows
TieOrders == {"rowid", "reverse rowid"}
Unknown == "unknown"

\* ------------------------------------------------------------- MonthYear
Digits == <<"0", "1", "2", "3", "4", "5", "6", "7", "8", "9">>

IsDigit(c) == \E d \in 1..10 : Digits[d] = c

DigitVal(c) == (CHOOSE d \in 1..10 : Digits[d] = c) - 1

Pow10(n) == IF n = 0 THEN 1 ELSE IF n = 1 THEN 10 ELSE IF n = 2 THEN 100 ELSE 1000

\* the w rightmost decimal digits of n, zero padded
FormatInt(n, w) == [i \in 1..w |-> Digits[((n \div Pow10(w - i)) % 10) + 1]]

\* t.Format("01-2006")
TimeFormat(t) == FormatInt((t % 12) + 1, 2) \o <<"-">> \o FormatInt(t \div 12, 4)

\* time.Parse("01-2006", s): two digits of a month 01..12, "-", four digits, no more
TimeParse(s) ==
    IF /\ Len(s) = 7
       /\ IsDigit(s[1]) /\ IsDigit(s[2]) /\ s[3] = "-"
       /\ \A i \in 4..7 : IsDigit(s[i])
       /\ (DigitVal(s[1]) * 10 + DigitVal(s[2])) \in 1..12
    THEN [err |-> Nil,
          t |-> (DigitVal(s[4]) * 1000 + DigitVal(s[5]) * 100 + DigitVal(s[6]) * 10 + DigitVal(s[7])) * 12
                + (DigitVal(s[1]) * 10 + DigitVal(s[2])) - 1]
    ELSE [err |-> ErrParse, t |-> 0]

NewMonthYear_Stale(t) == TimeFormat(StartTime)

NewMonthYear(t) == TimeFormat(t)

NewMonthYearString(s) ==
    LET r == TimeParse(s)
    IN  IF r.err # Nil THEN [err |-> r.err, my |-> <<>>]
        ELSE [err |-> Nil, my |-> NewMonthYear(r.t)]

\* the periods the clock passes through, and the dates callers pass in
ClockPeriods == {TimeFormat(t) : t \in StartTime..(StartTime + MaxTicks)}
EmptyPeriod == <<"0", "1", "-", "1", "9", "9", "9">>
RawPeriod == <<"2", "0", "0", "6", "-", "0", "5">>
\* the Date of the members passed to CreateMember by other callers than the handler
CreateDates == {TimeFormat(StartTime), RawPeriod}
CreateUIDs == {"U1", "U2", ""}
\* the dates FindLeaderboard is asked for
LeaderboardDates == {TimeFormat(StartTime), TimeFormat(StartTime + 1), EmptyPeriod, RawPeriod}

\* ---------------------------------------------------------------- Member
NoMember ==
    [ID |-> 0, Date |-> <<>>, SlackUID |-> "", ReceivedLikes |-> 0,
     ReceivedDislikes |-> 0, CreatedAt |-> 0, UpdatedAt |-> 0]

Validate_Off(m) == Nil

Validate(m) == IF m.SlackUID = "" THEN ErrInvalid ELSE Nil

Max(a, b) == IF a >= b THEN a ELSE b

\* the update closures of HandleReactionAddedEvent / HandleReactionRemovedEvent
AddLike_Set(m) == [m EXCEPT !.ReceivedLikes = 1]

AddLike(m) == [m EXCEPT !.ReceivedLikes = m.ReceivedLikes + 1]

AddDislike(m) == [m EXCEPT !.ReceivedDislikes = m.ReceivedDislikes + 1]

RemoveLike_NoClamp(m) == [m EXCEPT !.ReceivedLikes = m.ReceivedLikes - 1]

RemoveLike(m) == [m EXCEPT !.ReceivedLikes = Max(m.ReceivedLikes - 1, 0)]

RemoveDislike_WrongCounter(m) == [m EXCEPT !.ReceivedLikes = Max(m.ReceivedLikes - 1, 0)]

RemoveDislike(m) == [m EXCEPT !.ReceivedDislikes = Max(m.ReceivedDislikes - 1, 0)]

update(e, m) ==
    IF e.Type = "reaction_added"
    THEN (IF e.Reaction = ThumbsUp THEN AddLike(m) ELSE AddDislike(m))
    ELSE (IF e.Reaction = ThumbsUp THEN RemoveLike(m) ELSE RemoveDislike(m))

\* ------------------------------------------------------- the members table
\* genMemberToMember: the stored month_year is parsed back into a MonthYear
genMemberToMember(row) ==
    LET d == NewMonthYearString(row.month_year)
    IN  IF d.err # Nil THEN [err |-> d.err, m |-> NoMember]
        ELSE [err |-> Nil,
              m |-> [ID |-> row.id, Date |-> d.my, SlackUID |-> row.slack_uid,
                     ReceivedLikes |-> row.received_likes,
                     ReceivedDislikes |-> row.received_dislikes,
                     CreatedAt |-> row.created_at, UpdatedAt |-> row.updated_at]]

\* SELECT * FROM members WHERE id = ?
QFindMemberByID(rows, id) == {r \in rows : r.id = id}

QFindMember_AnyPeriod(rows, uid, my) == {r \in rows : r.slack_uid = uid}

QFindMember_AnyUser(rows, uid, my) == {r \in rows : r.month_year = my}

\* SELECT * FROM members WHERE slack_uid = ? AND month_year = ?
QFindMember(rows, uid, my) == {r \in rows : r.slack_uid = uid /\ r.month_year = my}

\* INTEGER PRIMARY KEY: the next rowid is one more than the largest in use
NextID(rows) == IF rows = {} THEN 1 ELSE (CHOOSE i \in {r.id : r \in rows} : \A r \in rows : r.id <= i) + 1

UniqueViolation_Off(rows, uid, my) == FALSE

\* UNIQUE(slack_uid, month_year)
UniqueViolation(rows, uid, my) == QFindMember(rows, uid, my) # {}

\* INSERT INTO members (month_year, slack_uid, created_at, updated_at) ... RETURNING *
NewRow(rows, uid, my, t) ==
    [id |-> NextID(rows), month_year |-> my, slack_uid |-> uid, received_likes |-> 0,
     received_dislikes |-> 0, created_at |-> t, updated_at |-> t]

\* the rows of a period that ORDER BY received_likes DESC may put first
MostLikesReceived_Any(rows, my) == {r \in rows : r.month_year = my}

MostLikesReceived(rows, my) ==
    {r \in rows : r.month_year = my /\
        \A o \in rows : o.month_year = my => o.received_likes <= r.received_likes}

MostDislikesReceived_AllPeriods(rows, my) ==
    {r \in rows : \A o \in rows : o.received_dislikes <= r.received_dislikes}

MostDislikesReceived(rows, my) ==
    {r \in rows : r.month_year = my /\
        \A o \in rows : o.month_year = my => o.received_dislikes <= r.received_dislikes}

\* ---------------------------------------------------------- MemberService
CreateMember_Replace(rows, m, t) ==
    IF Validate(m) # Nil THEN [err |-> Validate(m), rows |-> rows, m |-> m]
    ELSE LET stamped == [m EXCEPT !.CreatedAt = t, !.UpdatedAt = t]
             row == NewRow(rows, m.SlackUID, m.Date, t)
         IN  [err |-> Nil, rows |-> (rows \ QFindMember(rows, m.SlackUID, m.Date)) \cup {row},
              m |-> [stamped EXCEPT !.ID = row.id,
                                    !.ReceivedDislikes = row.received_dislikes,
                                    !.ReceivedLikes = row.received_likes]]

CreateMember_KeepCounters(rows, m, t) ==
    IF Validate(m) # Nil THEN [err |-> Validate(m), rows |-> rows, m |-> m]
    ELSE LET stamped == [m EXCEPT !.CreatedAt = t, !.UpdatedAt = t]
             row == [NewRow(rows, m.SlackUID, m.Date, t)
                       EXCEPT !.received_likes = m.ReceivedLikes,
                              !.received_dislikes = m.ReceivedDislikes]
         IN  IF UniqueViolation(rows, m.SlackUID, m.Date)
             THEN [err |-> ErrConstraint, rows |-> rows, m |-> stamped]
             ELSE [err |-> Nil, rows |-> rows \cup {row}, m |-> [stamped EXCEPT !.ID = row.id]]

\* CreateMember: Validate, stamp m with tx.now, INSERT, copy id and counters into m
CreateMember(rows, m, t) ==
    IF Validate(m) # Nil THEN [err |-> Validate(m), rows |-> rows, m |-> m]
    ELSE LET stamped == [m EXCEPT !.CreatedAt = t, !.UpdatedAt = t]
             row == NewRow(rows, m.SlackUID, m.Date, t)
         IN  IF UniqueViolation(rows, m.SlackUID, m.Date)
             THEN [err |-> ErrConstraint, rows |-> rows, m |-> stamped]
             ELSE [err |-> Nil, rows |-> rows \cup {row},
                   m |-> [stamped EXCEPT !.ID = row.id,
                                         !.ReceivedDislikes = row.received_dislikes,
                                         !.ReceivedLikes = row.received_likes]]

\* the *int fields of MemberUpdate
NilPtr == [nil |-> TRUE, v |-> 0]
Ptr(x) == [nil |-> FALSE, v |-> x]

\* MemberUpdate: a nil pointer leaves the field as FindMemberByID read it
ApplyUpdate(m, upd) ==
    [m EXCEPT !.ReceivedLikes = IF upd.ReceivedLikes.nil THEN @ ELSE upd.ReceivedLikes.v,
              !.ReceivedDislikes = IF upd.ReceivedDislikes.nil THEN @ ELSE upd.ReceivedDislikes.v]

\* UPDATE members SET received_likes = ?, received_dislikes = ?, updated_at = ? WHERE id = ?
QUpdateMember_Delta(rows, id, likes, dislikes, t) ==
    {IF r.id = id
     THEN [r EXCEPT !.received_likes = @ + likes, !.received_dislikes = @ + dislikes,
                    !.updated_at = t]
     ELSE r : r \in rows}

QUpdateMember_NoWhere(rows, id, likes, dislikes, t) ==
    {[r EXCEPT !.received_likes = likes, !.received_dislikes = dislikes, !.updated_at = t]
     : r \in rows}

QUpdateMember_DropsZero(rows, id, likes, dislikes, t) ==
    {IF r.id = id
     THEN [r EXCEPT !.received_likes = likes, !.received_dislikes = dislikes, !.updated_at = t]
     ELSE r : r \in {x \in rows : x.id # id \/ likes # 0 \/ dislikes # 0}}

QUpdateMember(rows, id, likes, dislikes, t) ==
    {IF r.id = id
     THEN [r EXCEPT !.received_likes = likes, !.received_dislikes = dislikes, !.updated_at = t]
     ELSE r : r \in rows}

QDeleteMember_RolledBack(rows, id) == rows

\* DELETE FROM members WHERE id = ?
QDeleteMember(rows, id) == {r \in rows : r.id # id}

FindMemberByID_Unmapped(rows, id) ==
    LET found == QFindMemberByID(rows, id)
    IN  IF found = {} THEN [err |-> ErrNoRows, m |-> NoMember]
        ELSE genMemberToMember(CHOOSE r \in found : TRUE)

\* FindMemberByID: sql.ErrNoRows becomes ErrNotFound, a row goes through genMemberToMember
FindMemberByID(rows, id) ==
    LET found == QFindMemberByID(rows, id)
    IN  IF found = {} THEN [err |-> ErrNotFound, m |-> NoMember]
        ELSE genMemberToMember(CHOOSE r \in found : TRUE)

FindMember_AnyPeriod(rows, uid, my) ==
    LET found == {r \in rows : r.slack_uid = uid}
    IN  IF found = {} THEN [err |-> ErrNotFound, m |-> NoMember]
        ELSE genMemberToMember(CHOOSE r \in found : TRUE)

\* FindMember: the same for the row of (SlackUID, date)
FindMember(rows, uid, my) ==
    LET found == QFindMember(rows, uid, my)
    IN  IF found = {} THEN [err |-> ErrNotFound, m |-> NoMember]
        ELSE genMemberToMember(CHOOSE r \in found : TRUE)

\* ------------------------------------------------------------------ state
VARIABLES
    members,    \* the rows of the members table
    now,        \* the wall clock (time.Now / db.now)
    pc,         \* pc[p]: the statement handler p executes next
    ev,         \* ev[p]: the reaction event handler p is serving
    monthYear,  \* monthYear[p]: HandleReactionEvent's monthYear
    mem,        \* mem[p]: HandleReactionEvent's mem, after update(mem)
    um,         \* um[p]: the parameters of UpdateMember's UPDATE, made from m and upd
    ret,        \* ret[p]: the error the last event served by p returned
    startedAt,  \* startedAt[p]: the clock when p read it for the event it serves
    nEvents,    \* number of events delivered
    nCreates,   \* number of CreateMember calls by other callers than the handler
    cm,         \* the error and the Member of the last such CreateMember call
    lb,         \* the FindLeaderboard request: position, date, result
    nRequests,  \* number of FindLeaderboard requests
    tally,      \* per (SlackUID, period): the reaction events delivered and their outcome
    last,       \* the last reaction event served, if it completed without error
    tieOrder,   \* the order in which the engine returns rows with equal sort keys
    lbSeen,     \* the result of the previous FindLeaderboard request, while no row was written
    svc,        \* the MemberService call of another caller than the handler: position, result
    nCalls,     \* number of such FindMemberByID, FindMember and UpdateMember calls
    svc2,       \* the UpdateMember call of a second such caller, and the number of its calls
    mu,         \* the POST /slack/monthly-update request: position, form values, outcome
    nUpdates    \* number of monthly-update requests

svcVars == <<svc, nCalls, svc2>>
muVars == <<mu, nUpdates>>

vars == <<members, now, pc, ev, monthYear, mem, um, ret, startedAt, nEvents, nCreates,
          cm, lb, nRequests, tally, last, tieOrder, lbSeen, svcVars, muVars>>

TargetUIDs == {u \in ItemUsers : u # "USLACKBOT" /\ u # ""}
Keys == TargetUIDs \X ClockPeriods
Events == [Type : EventTypes, Reaction : Reactions, ItemUser : ItemUsers]
NoEvent == [Type |-> "", Reaction |-> "", ItemUser |-> ""]
\* the events served while other callers use the MemberService
SvcEvents == [Type : {"reaction_added"}, Reaction : {ThumbsUp, ThumbsDown}, ItemUser : {"U1"}]
NoTally == [addLikes |-> 0, addDislikes |-> 0, removes |-> 0, failed |-> 0, notFound |-> 0]
NoEntry == [Type |-> "", Reaction |-> "", ItemUser |-> "", Date |-> <<>>, ID |-> 0,
            likesBefore |-> 0, dislikesBefore |-> 0]
IdleLb == [pc |-> "idle", date |-> <<>>, err |-> Nil,
           MostReceivedLikesMember |-> NoMember, MostReceivedDislikesMember |-> NoMember]

\* what a FindLeaderboard request returned
LbResult(l) == [date |-> l.date, err |-> l.err, likes |-> l.MostReceivedLikesMember,
                dislikes |-> l.MostReceivedDislikesMember]
\* runs: the number of requests (up to two) begun since the last write of a row; read:
\* the table as the first query of the request saw it; they are kept (on) only where
\* requests are repeated
NoSeen == [on |-> FALSE, runs |-> 0, prev |-> LbResult(IdleLb), read |-> {}]
Watching == [NoSeen EXCEPT !.on = TRUE]

NoUpdate == [ReceivedLikes |-> NilPtr, ReceivedDislikes |-> NilPtr]
IdleSvc == [pc |-> "idle", op |-> "", id |-> 0, uid |-> "", date |-> <<>>, upd |-> NoUpdate,
            err |-> Nil, m |-> NoMember]
\* the arguments of the calls
FindIDs == {1, 2}
FindUIDs == {"U1", "U2"}
FindDates == {TimeFormat(StartTime), TimeFormat(StartTime + 1), RawPeriod}
Updates == {[ReceivedLikes |-> Ptr(2), ReceivedDislikes |-> Ptr(1)],
            [ReceivedLikes |-> Ptr(0), ReceivedDislikes |-> NilPtr],
            [ReceivedLikes |-> NilPtr, ReceivedDislikes |-> Ptr(3)]}

\* the Members passed to CreateMember by callers that filled in more than SlackUID and Date
CreateMembers ==
    [ID : {0, 9}, Date : CreateDates, SlackUID : CreateUIDs, ReceivedLikes : {0, 4},
     ReceivedDislikes : {0, 6}, CreatedAt : {0}, UpdatedAt : {0}]

\* the updates of callers that each set one counter
PartialUpdates == {[ReceivedLikes |-> Ptr(2), ReceivedDislikes |-> NilPtr],
                   [ReceivedLikes |-> NilPtr, ReceivedDislikes |-> Ptr(3)]}
IdleSvc2 == [pc |-> "idle", op |-> "", id |-> 0, upd |-> NoUpdate, err |-> Nil, m |-> NoMember,
             calls |-> 0]

\* the form values of a monthly-update request, and the errors it returns
Channels == {"", "C1"}
RawDates == {<<>>, TimeFormat(StartTime), EmptyPeriod, RawPeriod}
\* the dates of repeated FindLeaderboard requests
RepeatDates == {TimeFormat(StartTime), EmptyPeriod}
ErrForm == "ParseForm error"
ErrNoChannel == "no channel value provided within the form"
ErrNoDate == "no date value provided within the form"
ErrMonth == "unable to parse the MonthYear"
ErrPost == "WeeklyUpdate PostMessage error"
\* status: the status code of the response, 0 while none has been written
IdleMu == [pc |-> "idle", channel |-> "", rawDate |-> <<>>, err |-> Nil, posts |-> 0,
           status |-> 0]

StatusOK == 200

\* Server.handleMonthlyUpdate: the error of HandleMonthlyUpdate goes to the log and the
\* response header is written
handleMonthlyUpdate(err) == StatusOK

InitSeen(seen) ==
    /\ members = {}
    /\ now = StartTime
    /\ pc = [p \in Procs |-> "idle"]
    /\ ev = [p \in Procs |-> NoEvent]
    /\ monthYear = [p \in Procs |-> <<>>]
    /\ mem = [p \in Procs |-> NoMember]
    /\ um = [p \in Procs |-> NoMember]
    /\ ret = [p \in Procs |-> Nil]
    /\ startedAt = [p \in Procs |-> 0]
    /\ nEvents = 0
    /\ nCreates = 0
    /\ cm = [err |-> Nil, m |-> NoMember, arg |-> NoMember]
    /\ lb = IdleLb
    /\ nRequests = 0
    /\ tally = [k \in Keys |-> NoTally]
    /\ last = NoEntry
    /\ tieOrder = Unknown
    /\ lbSeen = seen
    /\ svc = IdleSvc
    /\ nCalls = 0
    /\ svc2 = IdleSvc2
    /\ mu = IdleMu
    /\ nUpdates = 0

Init == InitSeen(NoSeen)

\* the same, with the results of repeated leaderboard requests kept for comparison
RoInit == InitSeen(Watching)

AllIdle == \A p \in Procs : pc[p] = "idle"

\* ghost bookkeeping: the event of p was delivered / found no record / returned err
Delivered(t, e) ==
    [t EXCEPT !.addLikes = IF e.Type = "reaction_added" /\ e.Reaction = ThumbsUp THEN @ + 1 ELSE @,
              !.addDislikes = IF e.Type = "reaction_added" /\ e.Reaction = ThumbsDown THEN @ + 1 ELSE @,
              !.removes = IF e.Type = "reaction_removed" THEN @ + 1 ELSE @]

Return_Retry(p, err) ==
    /\ pc' = [pc EXCEPT ![p] = IF err = Nil THEN "idle" ELSE "FindMember"]
    /\ ret' = [ret EXCEPT ![p] = err]
    /\ mem' = [mem EXCEPT ![p] = NoMember]
    /\ um' = [um EXCEPT ![p] = NoMember]
    /\ monthYear' = IF err = Nil THEN [monthYear EXCEPT ![p] = <<>>] ELSE monthYear
    /\ startedAt' = IF err = Nil THEN [startedAt EXCEPT ![p] = 0] ELSE startedAt
    /\ ev' = IF err = Nil THEN [ev EXCEPT ![p] = NoEvent] ELSE ev
    /\ tally' = IF err = Nil THEN tally
                ELSE [tally EXCEPT ![<<ev[p].ItemUser, monthYear[p]>>].failed = @ + 1]

\* HandleReactionEvent returns err for the event of p
Return(p, err) ==
    /\ pc' = [pc EXCEPT ![p] = "idle"]
    /\ ret' = [ret EXCEPT ![p] = err]
    /\ mem' = [mem EXCEPT ![p] = NoMember]
    /\ um' = [um EXCEPT ![p] = NoMember]
    /\ monthYear' = [monthYear EXCEPT ![p] = <<>>]
    /\ startedAt' = [startedAt EXCEPT ![p] = 0]
    /\ ev' = [ev EXCEPT ![p] = NoEvent]
    /\ tally' = IF err = Nil THEN tally
                ELSE [tally EXCEPT ![<<ev[p].ItemUser, monthYear[p]>>].failed = @ + 1]

\* ---------------------------------------------------- the reaction handlers
\* the guard of HandleReactionEvent: a reaction to nobody or to the system user
InvalidTarget_OnlyEmpty(uid) == uid = ""

InvalidTarget(uid) == uid = "USLACKBOT" \/ uid = ""

\* a write of a row ends the run of leaderboard requests that saw the same table
Wrote == lbSeen' = IF members' = members THEN lbSeen
                   ELSE [NoSeen EXCEPT !.on = lbSeen.on, !.read = lbSeen.read]

CountedReaction_Any(e) == TRUE

\* the cases of the switch on e.Reaction in HandleReactionAddedEvent and
\* HandleReactionRemovedEvent; any other reaction falls through to return nil
CountedReaction(e) == e.Reaction \in {ThumbsUp, ThumbsDown}

\* HandleEvents -> HandleReactionAddedEvent / HandleReactionRemovedEvent ->
\* HandleReactionEvent up to the clock read
HandleReactionStart(p, e) ==
    /\ pc[p] = "idle"
    /\ \A q \in Procs : q < p => pc[q] # "idle"
    /\ IF ~CountedReaction(e)
       THEN /\ ret' = [ret EXCEPT ![p] = Nil]
            /\ UNCHANGED <<pc, ev, monthYear, startedAt, tally, nEvents>>
       ELSE /\ nEvents < MaxEvents
            /\ nEvents' = nEvents + 1
            /\ IF InvalidTarget(e.ItemUser)
               THEN /\ ret' = [ret EXCEPT ![p] = Nil]
                    /\ UNCHANGED <<pc, ev, monthYear, startedAt, tally>>
               ELSE /\ pc' = [pc EXCEPT ![p] = "FindMember"]
                    /\ ev' = [ev EXCEPT ![p] = e]
                    /\ monthYear' = [monthYear EXCEPT ![p] = NewMonthYear(now)]
                    /\ startedAt' = [startedAt EXCEPT ![p] = now]
                    /\ tally' = [tally EXCEPT ![<<e.ItemUser, NewMonthYear(now)>>] = Delivered(@, e)]
                    /\ UNCHANGED ret
    /\ UNCHANGED <<members, now, mem, um, nCreates, cm, lb, nRequests, last, tieOrder, lbSeen,
                   svcVars, muVars>>

\* the signature a sender holding key puts on msg, taken to be unforgeable: equal
\* signatures come from equal keys and equal messages
HMAC(key, msg) == <<key, msg>>

signingSecret == "secret"
SigningKeys == {signingSecret, "guessed"}
NoHeader == <<>>
\* the events carried by the bodies of the POST /events requests
Bodies == [Type : {"reaction_added"}, Reaction : {ThumbsUp, "tada"}, ItemUser : {"U1", "U2"}]
\* the POST /events requests: the signature header (absent, or made with some key over
\* some body) and the body that arrived
Requests == [header : {NoHeader} \cup {HMAC(k, b) : k \in SigningKeys, b \in Bodies},
             body : Bodies]
ErrVerifier == "HandleEvents: missing signature header"
ErrUnauthorized == "HandleEvents: signature mismatch"

\* slack.NewSecretsVerifier(r.Header, s.signingSecret)
NewSecretsVerifier(header) == IF header = NoHeader THEN ErrVerifier ELSE Nil

Ensure_KeyOnly(header, body) == IF header[1] = signingSecret THEN Nil ELSE ErrUnauthorized

\* sv.Write(body), sv.Ensure(): the signature of the body under the signing secret is
\* compared with the header
Ensure(header, body) == IF header = HMAC(signingSecret, body) THEN Nil ELSE ErrUnauthorized

\* HandleEvents returns err before the event is parsed
HandleEventsReject(p, err) ==
    /\ pc[p] = "idle"
    /\ \A q \in Procs : q < p => pc[q] # "idle"
    /\ ret' = [ret EXCEPT ![p] = err]
    /\ UNCHANGED <<members, now, pc, ev, monthYear, mem, um, startedAt, nEvents, nCreates, cm,
                   lb, nRequests, tally, last, tieOrder, lbSeen, svcVars, muVars>>

\* HandleEvents: the request is verified, then its event goes to the reaction handlers
HandleEvents(p, req) ==
    IF NewSecretsVerifier(req.header) # Nil
    THEN HandleEventsReject(p, NewSecretsVerifier(req.header))
    ELSE IF Ensure(req.header, req.body) # Nil
         THEN HandleEventsReject(p, Ensure(req.header, req.body))
         ELSE HandleReactionStart(p, req.body)

\* the reaction events as Slack sends them: User is the user who reacted, ItemUser the
\* author of the item reacted to
SlackEvents == [Type : EventTypes, Reaction : Reactions, ItemUser : ItemUsers, User : ItemUsers]

\* HandleReactionAddedEvent(e) / HandleReactionRemovedEvent(e): e.Reaction and e.ItemUser
\* are read, e.User is not
HandleReactionAddedOrRemovedEvent(p, e) ==
    HandleReactionStart(p, [Type |-> e.Type, Reaction |-> e.Reaction, ItemUser |-> e.ItemUser])

\* s.MemberService.FindMember(memSlackUID, monthYear), then update(mem) when found
HandleReactionFind(p) ==
    /\ pc[p] = "FindMember"
    /\ LET found == QFindMember(members, ev[p].ItemUser, monthYear[p])
       IN  IF found = {}
           THEN /\ pc' = [pc EXCEPT ![p] = "CreateMember"]
                /\ tally' = [tally EXCEPT ![<<ev[p].ItemUser, monthYear[p]>>].notFound = @ + 1]
                /\ UNCHANGED <<mem, ret, um, monthYear, startedAt, ev, last>>
           ELSE \E row \in found :
                  LET r == genMemberToMember(row)
                  IN  IF r.err # Nil
                      THEN Return(p, r.err) /\ last' = NoEntry
                      ELSE /\ pc' = [pc EXCEPT ![p] = "UpdateMember"]
                           /\ mem' = [mem EXCEPT ![p] = update(ev[p], r.m)]
                           /\ UNCHANGED <<ret, um, monthYear, startedAt, ev, tally, last>>
    /\ UNCHANGED <<members, now, nEvents, nCreates, cm, lb, nRequests, tieOrder, lbSeen,
                   svcVars, muVars>>

\* s.MemberService.CreateMember(m), mem = m, update(mem)
HandleReactionCreate(p) ==
    /\ pc[p] = "CreateMember"
    /\ LET r == CreateMember(members, [NoMember EXCEPT !.SlackUID = ev[p].ItemUser,
                                                         !.Date = monthYear[p]], now)
       IN  IF r.err # Nil
           THEN Return(p, r.err) /\ last' = NoEntry /\ UNCHANGED members
           ELSE /\ members' = r.rows
                /\ pc' = [pc EXCEPT ![p] = "UpdateMember"]
                /\ mem' = [mem EXCEPT ![p] = update(ev[p], r.m)]
                /\ UNCHANGED <<ret, um, monthYear, startedAt, ev, tally, last>>
    /\ Wrote
    /\ UNCHANGED <<now, nEvents, nCreates, cm, lb, nRequests, tieOrder, svcVars, muVars>>

\* the parameters of the UPDATE are made from m after the first statement has returned:
\* the counters of m with upd applied, and time.Now() for updated_at
UpdateMemberParams(m, upd, t) == [ApplyUpdate(m, upd) EXCEPT !.UpdatedAt = t]

\* UpdateMember(mem.ID, upd), first statement: ms.FindMemberByID(id), then upd is applied to m
HandleReactionUpdateFind(p) ==
    /\ pc[p] = "UpdateMember"
    /\ LET found == QFindMemberByID(members, mem[p].ID)
           upd == [ReceivedLikes |-> Ptr(mem[p].ReceivedLikes),
                   ReceivedDislikes |-> Ptr(mem[p].ReceivedDislikes)]
       IN  IF found = {}
           THEN Return(p, ErrNotFound) /\ last' = NoEntry
           ELSE \E row \in found :
                  LET r == genMemberToMember(row)
                  IN  IF r.err # Nil
                      THEN Return(p, r.err) /\ last' = NoEntry
                      ELSE /\ pc' = [pc EXCEPT ![p] = "UpdateWrite"]
                           /\ um' = [um EXCEPT ![p] = UpdateMemberParams(r.m, upd, now)]
                           /\ UNCHANGED <<mem, ret, monthYear, startedAt, ev, tally, last>>
    /\ UNCHANGED <<members, now, nEvents, nCreates, cm, lb, nRequests, tieOrder, lbSeen,
                   svcVars, muVars>>

\* UpdateMember, second statement: the UPDATE ... RETURNING *, then the handler returns
HandleReactionUpdateWrite(p) ==
    /\ pc[p] = "UpdateWrite"
    /\ LET found == QFindMemberByID(members, mem[p].ID)
       IN  IF found = {}
           THEN Return(p, ErrNoRows) /\ last' = NoEntry /\ UNCHANGED members
           ELSE /\ \E t \in um[p].UpdatedAt..now :
                     members' = QUpdateMember(members, mem[p].ID, um[p].ReceivedLikes,
                                              um[p].ReceivedDislikes, t)
                /\ \E row \in found :
                     LET r == genMemberToMember(row)
                         entry == [Type |-> ev[p].Type, Reaction |-> ev[p].Reaction,
                                   ItemUser |-> ev[p].ItemUser, Date |-> monthYear[p],
                                   ID |-> row.id, likesBefore |-> row.received_likes,
                                   dislikesBefore |-> row.received_dislikes]
                     IN  /\ Return(p, r.err)
                         /\ last' = IF r.err # Nil THEN NoEntry ELSE entry
    /\ Wrote
    /\ UNCHANGED <<now, nEvents, nCreates, cm, lb, nRequests, tieOrder, svcVars, muVars>>

\* the statement p is at fails in the database: BeginTx or the statement returns an
\* error and nothing is written, or (committed) the INSERT or UPDATE has run on the pool
\* and the Commit after it returns the error. The handler returns the error.
HandleReactionStoreFailure(p, committed) ==
    /\ pc[p] \in {"FindMember", "CreateMember", "UpdateMember", "UpdateWrite"}
    /\ committed => pc[p] \in {"CreateMember", "UpdateWrite"}
    /\ members' = IF ~committed THEN members
                  ELSE IF pc[p] = "CreateMember"
                  THEN CreateMember(members, [NoMember EXCEPT !.SlackUID = ev[p].ItemUser,
                                                              !.Date = monthYear[p]], now).rows
                  ELSE QUpdateMember(members, mem[p].ID, um[p].ReceivedLikes,
                                     um[p].ReceivedDislikes, um[p].UpdatedAt)
    /\ Return(p, ErrStore)
    /\ last' = NoEntry
    /\ Wrote
    /\ UNCHANGED <<now, nEvents, nCreates, cm, lb, nRequests, tieOrder, svcVars, muVars>>

\* ------------------------------------------------------- the other callers
\* MemberService.CreateMember(m) called with a Member of the caller's making; arg is m
\* as the caller passed it
CallCreateMemberOf(m) ==
    /\ nCreates < MaxCreates
    /\ nCreates' = nCreates + 1
    /\ LET r == CreateMember(members, m, now)
       IN  /\ members' = r.rows
           /\ cm' = [err |-> r.err, m |-> r.m, arg |-> m]
    /\ Wrote
    /\ UNCHANGED <<now, pc, ev, monthYear, mem, um, ret, startedAt, nEvents, lb, nRequests,
                   tally, last, tieOrder, svcVars, muVars>>

\* the same with a Member that has only its SlackUID and Date set
CallCreateMember(uid, date) ==
    CallCreateMemberOf([NoMember EXCEPT !.SlackUID = uid, !.Date = date])

\* MemberService.FindMemberByID(id)
CallFindMemberByID(id) ==
    /\ svc.pc = "idle"
    /\ nCalls < MaxCalls
    /\ nCalls' = nCalls + 1
    /\ LET r == FindMemberByID(members, id)
       IN  svc' = [IdleSvc EXCEPT !.op = "FindMemberByID", !.id = id, !.err = r.err, !.m = r.m]
    /\ UNCHANGED <<members, now, pc, ev, monthYear, mem, um, ret, startedAt, nEvents, nCreates,
                   cm, lb, nRequests, tally, last, tieOrder, lbSeen, svc2, muVars>>

\* MemberService.FindMember(SlackUID, date)
CallFindMember(uid, date) ==
    /\ svc.pc = "idle"
    /\ nCalls < MaxCalls
    /\ nCalls' = nCalls + 1
    /\ LET r == FindMember(members, uid, date)
       IN  svc' = [IdleSvc EXCEPT !.op = "FindMember", !.uid = uid, !.date = date,
                                  !.err = r.err, !.m = r.m]
    /\ UNCHANGED <<members, now, pc, ev, monthYear, mem, um, ret, startedAt, nEvents, nCreates,
                   cm, lb, nRequests, tally, last, tieOrder, lbSeen, svc2, muVars>>

\* MemberService.UpdateMember(id, upd), first statement: ms.FindMemberByID(id), then the
\* fields of upd that are not nil are copied into m
CallUpdateMemberFind(id, upd) ==
    /\ svc.pc = "idle"
    /\ nCalls < MaxCalls
    /\ nCalls' = nCalls + 1
    /\ LET r == FindMemberByID(members, id)
       IN  IF r.err # Nil
           THEN svc' = [IdleSvc EXCEPT !.op = "UpdateMember", !.id = id, !.upd = upd,
                                       !.err = r.err]
           ELSE svc' = [IdleSvc EXCEPT !.pc = "UpdateWrite", !.op = "UpdateMember", !.id = id,
                                       !.upd = upd, !.m = UpdateMemberParams(r.m, upd, now)]
    /\ UNCHANGED <<members, now, pc, ev, monthYear, mem, um, ret, startedAt, nEvents, nCreates,
                   cm, lb, nRequests, tally, last, tieOrder, lbSeen, svc2, muVars>>

\* UpdateMember, second statement: the UPDATE ... RETURNING *, and the row it returns
\* goes through genMemberToMember
CallUpdateMemberWrite ==
    /\ svc.pc = "UpdateWrite"
    /\ IF QFindMemberByID(members, svc.id) = {}
       THEN /\ svc' = [svc EXCEPT !.pc = "idle", !.err = ErrNoRows, !.m = NoMember]
            /\ UNCHANGED members
       ELSE /\ \E t \in svc.m.UpdatedAt..now :
                 members' = QUpdateMember(members, svc.id, svc.m.ReceivedLikes,
                                          svc.m.ReceivedDislikes, t)
            /\ LET r == genMemberToMember(CHOOSE x \in QFindMemberByID(members', svc.id) : TRUE)
               IN  svc' = [svc EXCEPT !.pc = "idle", !.err = r.err, !.m = r.m]
    /\ Wrote
    /\ UNCHANGED <<now, pc, ev, monthYear, mem, um, ret, startedAt, nEvents, nCreates,
                   cm, lb, nRequests, tally, last, tieOrder, nCalls, svc2, muVars>>

\* MemberService.DeleteMember(id): the DELETE runs on the pool; that it finds no row is
\* no error
CallDeleteMember(id) ==
    /\ svc.pc = "idle"
    /\ nCalls < MaxCalls
    /\ nCalls' = nCalls + 1
    /\ members' = QDeleteMember(members, id)
    /\ svc' = [IdleSvc EXCEPT !.op = "DeleteMember", !.id = id]
    /\ Wrote
    /\ UNCHANGED <<now, pc, ev, monthYear, mem, um, ret, startedAt, nEvents, nCreates,
                   cm, lb, nRequests, tally, last, tieOrder, svc2, muVars>>

\* the same call by a second caller, running concurrently with the first
OtherUpdateMemberFind(id, upd) ==
    /\ svc2.pc = "idle"
    /\ svc2.calls < MaxCalls
    /\ LET r == FindMemberByID(members, id)
       IN  IF r.err # Nil
           THEN svc2' = [IdleSvc2 EXCEPT !.op = "UpdateMember", !.id = id, !.upd = upd,
                                         !.err = r.err, !.calls = svc2.calls + 1]
           ELSE svc2' = [IdleSvc2 EXCEPT !.pc = "UpdateWrite", !.op = "UpdateMember",
                                         !.id = id, !.upd = upd,
                                         !.m = UpdateMemberParams(r.m, upd, now),
                                         !.calls = svc2.calls + 1]
    /\ UNCHANGED <<members, now, pc, ev, monthYear, mem, um, ret, startedAt, nEvents, nCreates,
                   cm, lb, nRequests, tally, last, tieOrder, lbSeen, svc, nCalls, muVars>>

OtherUpdateMemberWrite ==
    /\ svc2.pc = "UpdateWrite"
    /\ IF QFindMemberByID(members, svc2.id) = {}
       THEN /\ svc2' = [svc2 EXCEPT !.pc = "idle", !.err = ErrNoRows, !.m = NoMember]
            /\ UNCHANGED members
       ELSE /\ \E t \in svc2.m.UpdatedAt..now :
                 members' = QUpdateMember(members, svc2.id, svc2.m.ReceivedLikes,
                                          svc2.m.ReceivedDislikes, t)
            /\ LET r == genMemberToMember(CHOOSE x \in QFindMemberByID(members', svc2.id) : TRUE)
               IN  svc2' = [svc2 EXCEPT !.pc = "idle", !.err = r.err, !.m = r.m]
    /\ Wrote
    /\ UNCHANGED <<now, pc, ev, monthYear, mem, um, ret, startedAt, nEvents, nCreates,
                   cm, lb, nRequests, tally, last, tieOrder, svc, nCalls, muVars>>

\* the wall clock moves into the next month
Tick ==
    /\ now < StartTime + MaxTicks
    /\ now' = now + 1
    /\ UNCHANGED <<members, pc, ev, monthYear, mem, um, ret, startedAt, nEvents, nCreates,
                   cm, lb, nRequests, tally, last, tieOrder, lbSeen, svcVars, muVars>>

\* -------------------------------------------------------- LeaderboardService
\* LIMIT 1 after ORDER BY: which of the rows with the largest key comes first is left to
\* the engine. The engine is deterministic: it walks the table by ascending or by
\* descending rowid, and it answers the same query on the same table the same way.
First_Alternating(order, S) ==
    IF nRequests % 2 = 1 THEN CHOOSE r \in S : \A o \in S : r.id <= o.id
    ELSE CHOOSE r \in S : \A o \in S : r.id >= o.id

First(order, S) ==
    IF order = "rowid" THEN CHOOSE r \in S : \A o \in S : r.id <= o.id
    ELSE CHOOSE r \in S : \A o \in S : r.id >= o.id

\* a FindLeaderboard request begins: it is the second of a run when one has begun
\* since the last write of a row
Begin(date) ==
    /\ lb' = [IdleLb EXCEPT !.pc = "MostLikesReceived", !.date = date]
    /\ lbSeen' = IF ~lbSeen.on THEN lbSeen
                 ELSE IF lbSeen.runs = 0 THEN [lbSeen EXCEPT !.runs = 1]
                 ELSE [lbSeen EXCEPT !.runs = 2, !.prev = LbResult(lb)]

\* FindLeaderboard(date) is called
FindLeaderboardStart(date) ==
    /\ lb.pc = "idle"
    /\ mu.pc = "idle"
    /\ nRequests' = nRequests + 1
    /\ Begin(date)
    /\ UNCHANGED <<members, now, pc, ev, monthYear, mem, um, ret, startedAt, nEvents,
                   nCreates, cm, tally, last, tieOrder, svcVars, muVars>>

\* first statement: ls.db.query.MostLikesReceived, LIMIT 1, then genMemberToMember
FindLeaderboardLikes ==
    /\ lb.pc = "MostLikesReceived"
    /\ lbSeen' = IF lbSeen.on THEN [lbSeen EXCEPT !.read = members] ELSE lbSeen
    /\ LET first == MostLikesReceived(members, lb.date)
       IN  IF first = {}
           THEN lb' = [IdleLb EXCEPT !.date = lb.date, !.err = ErrNoRows] /\ UNCHANGED tieOrder
           ELSE \E order \in TieOrders :
                  /\ tieOrder # Unknown => order = tieOrder
                  /\ tieOrder' = IF Cardinality(first) > 1 THEN order ELSE tieOrder
                  /\ LET r == genMemberToMember(First(order, first))
                     IN  IF r.err # Nil
                         THEN lb' = [IdleLb EXCEPT !.date = lb.date, !.err = r.err]
                         ELSE lb' = [lb EXCEPT !.pc = "MostDislikesReceived",
                                               !.MostReceivedLikesMember = r.m]
    /\ UNCHANGED <<members, now, pc, ev, monthYear, mem, um, ret, startedAt, nEvents,
                   nCreates, cm, nRequests, tally, last, svcVars, muVars>>

\* second statement: ls.db.query.MostDislikesReceived, LIMIT 1, then the Leaderboard is returned
FindLeaderboardDislikes ==
    /\ lb.pc = "MostDislikesReceived"
    /\ LET first == MostDislikesReceived(members, lb.date)
       IN  IF first = {}
           THEN lb' = [IdleLb EXCEPT !.date = lb.date, !.err = ErrNoRows] /\ UNCHANGED tieOrder
           ELSE \E order \in TieOrders :
                  /\ tieOrder # Unknown => order = tieOrder
                  /\ tieOrder' = IF Cardinality(first) > 1 THEN order ELSE tieOrder
                  /\ LET r == genMemberToMember(First(order, first))
                     IN  IF r.err # Nil
                         THEN lb' = [IdleLb EXCEPT !.date = lb.date, !.err = r.err]
                         ELSE lb' = [lb EXCEPT !.pc = "idle",
                                               !.MostReceivedDislikesMember = r.m]
    /\ UNCHANGED <<members, now, pc, ev, monthYear, mem, um, ret, startedAt, nEvents,
                   nCreates, cm, nRequests, tally, last, lbSeen, svcVars, muVars>>

\* ----------------------------------------------------- HandleMonthlyUpdate
\* POST /slack/monthly-update: ParseForm, the channel and date values, NewMonthYearString,
\* and the call of FindLeaderboard
HandleMonthlyUpdateStart(formOK, channel, rawDate) ==
    /\ mu.pc = "idle"
    /\ lb.pc = "idle"
    /\ nUpdates < MaxUpdates
    /\ nUpdates' = nUpdates + 1
    /\ LET d == NewMonthYearString(rawDate)
           err == IF ~formOK THEN ErrForm
                  ELSE IF channel = "" THEN ErrNoChannel
                  ELSE IF rawDate = <<>> THEN ErrNoDate
                  ELSE d.err
       IN  IF err # Nil
           THEN /\ mu' = [IdleMu EXCEPT !.channel = channel, !.rawDate = rawDate, !.err = err,
                                        !.status = handleMonthlyUpdate(err)]
                /\ UNCHANGED <<lb, lbSeen>>
           ELSE /\ mu' = [IdleMu EXCEPT !.pc = "FindLeaderboard", !.channel = channel,
                                        !.rawDate = rawDate]
                /\ Begin(d.my)
    /\ UNCHANGED <<members, now, pc, ev, monthYear, mem, um, ret, startedAt, nEvents,
                   nCreates, cm, nRequests, tally, last, tieOrder, svcVars>>

HandleMonthlyUpdatePost_Eager(sent, ok) ==
    /\ mu.pc = "FindLeaderboard"
    /\ lb.pc = "idle"
    /\ ok => sent
    /\ mu' = [mu EXCEPT !.pc = "idle",
                        !.err = IF lb.err # Nil THEN lb.err ELSE IF ok THEN Nil ELSE ErrPost,
                        !.posts = IF sent THEN @ + 1 ELSE @,
                        !.status = StatusOK]
    /\ UNCHANGED <<members, now, pc, ev, monthYear, mem, um, ret, startedAt, nEvents,
                   nCreates, cm, lb, nRequests, tally, last, tieOrder, lbSeen, svcVars,
                   nUpdates>>

\* FindLeaderboard has returned: its error is returned, or date.Month() and the blocks
\* are made and s.client.PostMessage is called. A PostMessage that returns an error may
\* or may not have delivered the message.
HandleMonthlyUpdatePost(sent, ok) ==
    /\ mu.pc = "FindLeaderboard"
    /\ lb.pc = "idle"
    /\ IF lb.err # Nil
       THEN mu' = [mu EXCEPT !.pc = "idle", !.err = lb.err,
                             !.status = handleMonthlyUpdate(lb.err)]
       ELSE IF TimeParse(lb.date).err # Nil
       THEN mu' = [mu EXCEPT !.pc = "idle", !.err = ErrMonth,
                             !.status = handleMonthlyUpdate(ErrMonth)]
       ELSE /\ ok => sent
            /\ mu' = [mu EXCEPT !.pc = "idle", !.err = IF ok THEN Nil ELSE ErrPost,
                                !.posts = IF sent THEN @ + 1 ELSE @,
                                !.status = handleMonthlyUpdate(IF ok THEN Nil ELSE ErrPost)]
    /\ UNCHANGED <<members, now, pc, ev, monthYear, mem, um, ret, startedAt, nEvents,
                   nCreates, cm, lb, nRequests, tally, last, tieOrder, lbSeen, svcVars,
                   nUpdates>>

\* ------------------------------------------------------------ specifications
\* handlers run concurrently with each other and with the other callers of CreateMember
Next ==
    \/ \E p \in Procs, e \in Events : HandleReactionStart(p, e)
    \/ \E p \in Procs : HandleReactionFind(p)
    \/ \E p \in Procs : HandleReactionCreate(p)
    \/ \E p \in Procs : HandleReactionUpdateFind(p)
    \/ \E p \in Procs : HandleReactionUpdateWrite(p)
    \/ \E uid \in CreateUIDs, date \in CreateDates : CallCreateMember(uid, date)
    \/ Tick

Spec == Init /\ [][Next]_vars

\* events are served one at a time; the clock moves freely
SeqNext ==
    \/ \E p \in Procs, e \in Events : AllIdle /\ HandleReactionStart(p, e)
    \/ \E p \in Procs : HandleReactionFind(p)
    \/ \E p \in Procs : HandleReactionCreate(p)
    \/ \E p \in Procs : HandleReactionUpdateFind(p)
    \/ \E p \in Procs : HandleReactionUpdateWrite(p)
    \/ Tick

SeqSpec == Init /\ [][SeqNext]_vars

\* a leaderboard request runs concurrently with the handler serving an event and with
\* the other callers
LbNext ==
    \/ \E p \in Procs, e \in Events : AllIdle /\ HandleReactionStart(p, e)
    \/ \E p \in Procs : HandleReactionFind(p)
    \/ \E p \in Procs : HandleReactionCreate(p)
    \/ \E p \in Procs : HandleReactionUpdateFind(p)
    \/ \E p \in Procs : HandleReactionUpdateWrite(p)
    \/ \E uid \in CreateUIDs, date \in CreateDates : CallCreateMember(uid, date)
    \/ Tick
    \/ \E date \in LeaderboardDates : nRequests < MaxRequests /\ FindLeaderboardStart(date)
    \/ FindLeaderboardLikes
    \/ FindLeaderboardDislikes

LbSpec == Init /\ [][LbNext]_vars

\* the calls of MemberService by other callers, while the handler serves events one
\* at a time
SvcNext ==
    \/ \E p \in Procs, e \in SvcEvents : AllIdle /\ HandleReactionStart(p, e)
    \/ \E p \in Procs : HandleReactionFind(p)
    \/ \E p \in Procs : HandleReactionCreate(p)
    \/ \E p \in Procs : HandleReactionUpdateFind(p)
    \/ \E p \in Procs : HandleReactionUpdateWrite(p)
    \/ \E uid \in CreateUIDs, date \in CreateDates : CallCreateMember(uid, date)
    \/ \E id \in FindIDs : CallFindMemberByID(id)
    \/ \E uid \in FindUIDs, date \in FindDates : CallFindMember(uid, date)
    \/ \E id \in FindIDs, upd \in Updates : CallUpdateMemberFind(id, upd)
    \/ CallUpdateMemberWrite
    \/ Tick

SvcSpec == Init /\ [][SvcNext]_vars

\* leaderboard requests one after the other, while the handler serves events one at a time
RoNext ==
    \/ \E p \in Procs, e \in Events : AllIdle /\ HandleReactionStart(p, e)
    \/ \E p \in Procs : HandleReactionFind(p)
    \/ \E p \in Procs : HandleReactionCreate(p)
    \/ \E p \in Procs : HandleReactionUpdateFind(p)
    \/ \E p \in Procs : HandleReactionUpdateWrite(p)
    \/ \E date \in RepeatDates : nRequests < MaxRepeats /\ FindLeaderboardStart(date)
    \/ FindLeaderboardLikes
    \/ FindLeaderboardDislikes

RoSpec == RoInit /\ [][RoNext]_vars

\* monthly-update requests, while the handler serves events one at a time
MuNext ==
    \/ \E p \in Procs, e \in Events : AllIdle /\ HandleReactionStart(p, e)
    \/ \E p \in Procs : HandleReactionFind(p)
    \/ \E p \in Procs : HandleReactionCreate(p)
    \/ \E p \in Procs : HandleReactionUpdateFind(p)
    \/ \E p \in Procs : HandleReactionUpdateWrite(p)
    \/ \E formOK \in BOOLEAN, channel \in Channels, rawDate \in RawDates :
          HandleMonthlyUpdateStart(formOK, channel, rawDate)
    \/ FindLeaderboardLikes
    \/ FindLeaderboardDislikes
    \/ \E sent \in BOOLEAN, ok \in BOOLEAN : HandleMonthlyUpdatePost(sent, ok)

MuSpec == Init /\ [][MuNext]_vars

\* events are served one at a time by a handler whose database calls may fail
FailNext ==
    \/ \E p \in Procs, e \in Events : AllIdle /\ HandleReactionStart(p, e)
    \/ \E p \in Procs : HandleReactionFind(p)
    \/ \E p \in Procs : HandleReactionCreate(p)
    \/ \E p \in Procs : HandleReactionUpdateFind(p)
    \/ \E p \in Procs : HandleReactionUpdateWrite(p)
    \/ \E p \in Procs, committed \in BOOLEAN : HandleReactionStoreFailure(p, committed)
    \/ Tick

FailSpec == Init /\ [][FailNext]_vars

\* two callers of UpdateMember run concurrently on the records the other callers create
UpNext ==
    \/ \E uid \in CreateUIDs, date \in CreateDates : CallCreateMember(uid, date)
    \/ \E id \in FindIDs, upd \in PartialUpdates : CallUpdateMemberFind(id, upd)
    \/ CallUpdateMemberWrite
    \/ \E id \in FindIDs, upd \in PartialUpdates : OtherUpdateMemberFind(id, upd)
    \/ OtherUpdateMemberWrite
    \/ Tick

UpSpec == Init /\ [][UpNext]_vars

\* CreateMember is called with Members of any content, while the handler serves events
\* one at a time
CmNext ==
    \/ \E p \in Procs, e \in SvcEvents : AllIdle /\ HandleReactionStart(p, e)
    \/ \E p \in Procs : HandleReactionFind(p)
    \/ \E p \in Procs : HandleReactionCreate(p)
    \/ \E p \in Procs : HandleReactionUpdateFind(p)
    \/ \E p \in Procs : HandleReactionUpdateWrite(p)
    \/ \E m \in CreateMembers : CallCreateMemberOf(m)
    \/ Tick

CmSpec == Init /\ [][CmNext]_vars

\* DeleteMember is called while the handler serves events one at a time and a
\* leaderboard request runs
DelNext ==
    \/ \E p \in Procs, e \in Events : AllIdle /\ HandleReactionStart(p, e)
    \/ \E p \in Procs : HandleReactionFind(p)
    \/ \E p \in Procs : HandleReactionCreate(p)
    \/ \E p \in Procs : HandleReactionUpdateFind(p)
    \/ \E p \in Procs : HandleReactionUpdateWrite(p)
    \/ \E date \in RepeatDates : nRequests < MaxRequests /\ FindLeaderboardStart(date)
    \/ FindLeaderboardLikes
    \/ FindLeaderboardDislikes
    \/ \E id \in FindIDs : CallDeleteMember(id)

DelSpec == Init /\ [][DelNext]_vars

\* DeleteMember and CreateMember are called while the handler serves events one at a time
ReuseNext ==
    \/ \E p \in Procs, e \in Events : AllIdle /\ HandleReactionStart(p, e)
    \/ \E p \in Procs : HandleReactionFind(p)
    \/ \E p \in Procs : HandleReactionCreate(p)
    \/ \E p \in Procs : HandleReactionUpdateFind(p)
    \/ \E p \in Procs : HandleReactionUpdateWrite(p)
    \/ \E id \in FindIDs : CallDeleteMember(id)
    \/ \E uid \in CreateUIDs, date \in CreateDates : CallCreateMember(uid, date)

ReuseSpec == Init /\ [][ReuseNext]_vars

\* the requests to POST /events, signed or not, served concurrently
EvNext ==
    \/ \E p \in Procs, req \in Requests : HandleEvents(p, req)
    \/ \E p \in Procs : HandleReactionFind(p)
    \/ \E p \in Procs : HandleReactionCreate(p)
    \/ \E p \in Procs : HandleReactionUpdateFind(p)
    \/ \E p \in Procs : HandleReactionUpdateWrite(p)

EvSpec == Init /\ [][EvNext]_vars

\* the reactions of users to their own items
SelfReactions == {e \in SlackEvents : e.User = e.ItemUser}

\* every event delivered is a reaction of a user to an item of their own
SelfNext ==
    \/ \E p \in Procs, e \in SelfReactions : HandleReactionAddedOrRemovedEvent(p, e)
    \/ \E p \in Procs : HandleReactionFind(p)
    \/ \E p \in Procs : HandleReactionCreate(p)
    \/ \E p \in Procs : HandleReactionUpdateFind(p)
    \/ \E p \in Procs : HandleReactionUpdateWrite(p)
    \/ Tick

SelfSpec == Init /\ [][SelfNext]_vars

\* ------------------------------------------------------------------ claims
RowOf(k) == {r \in members : r.slack_uid = k[1] /\ r.month_year = k[2]}
Total(t) == t.addLikes + t.addDislikes + t.removes

\* p executes the statement at position at and moves on
Steps(p, at) == pc[p] = at /\ pc'[p] # at

\* C1: the store holds at most one record for each (SlackUID, period) pair.
C1_UniquePair ==
    \A r1 \in members, r2 \in members :
        (r1.slack_uid = r2.slack_uid /\ r1.month_year = r2.month_year) => r1 = r2

\* a second create of an existing pair was attempted and refused
C1_Witness ==
    /\ \E p \in Procs : pc[p] = "idle" /\ ret[p] = ErrConstraint
    /\ members # {}

\* C2: when only reaction events create records, an event whose CreateMember hits the
\* uniqueness violation surfaces no error, and once the events that found no record
\* have returned, the single record shows the adds of all of them.
C2_CreateRaceRecovered ==
    nCreates = 0 =>
        /\ \A p \in Procs : ret[p] # ErrConstraint
        /\ \A k \in Keys :
              (AllIdle /\ tally[k].removes = 0 /\ tally[k].notFound = Total(tally[k])
                       /\ Total(tally[k]) > 0)
              => \E r \in RowOf(k) : /\ r.received_likes = tally[k].addLikes
                                      /\ r.received_dislikes = tally[k].addDislikes

\* C3: when every add event for a pair found its record in place and returned without
\* error, the record's counters are the numbers of '+1' and '-1' adds: no update is lost.
C3_NoLostUpdate ==
    \A k \in Keys :
        (AllIdle /\ tally[k].removes = 0 /\ tally[k].failed = 0 /\ tally[k].notFound = 0
                 /\ Total(tally[k]) > 0)
        => \E r \in RowOf(k) : /\ r.received_likes = tally[k].addLikes
                                /\ r.received_dislikes = tally[k].addDislikes

\* C4: events served one at a time leave every counter >= 0, and a remove event
\* written to a record whose counter is 0 leaves that counter at 0.
C4_NeverNegative ==
    [][/\ \A r \in members' : r.received_likes >= 0 /\ r.received_dislikes >= 0
       /\ \A p \in Procs :
            (Steps(p, "UpdateWrite") /\ ev[p].Type = "reaction_removed")
            => \A r \in members, n \in members' :
                 (r.id = mem[p].ID /\ n.id = r.id)
                 => /\ (ev[p].Reaction = ThumbsUp /\ r.received_likes = 0)
                         => n.received_likes = 0
                    /\ (ev[p].Reaction = ThumbsDown /\ r.received_dislikes = 0)
                         => n.received_dislikes = 0]_vars

\* a '+1' remove has been served on a record whose receivedLikes was 0, twice over
C4_Witness ==
    /\ AllIdle
    /\ last.Type = "reaction_removed" /\ last.Reaction = ThumbsUp /\ last.likesBefore = 0
    /\ tally[<<last.ItemUser, last.Date>>].removes >= 2
    /\ \E r \in members : r.id = last.ID /\ r.received_likes = 0

\* C5: after n '+1' adds and m '-1' adds served one at a time for a pair that had no
\* record, and no removes, the record has receivedLikes = n and receivedDislikes = m.
C5_AddsCounted ==
    \A k \in Keys :
        (AllIdle /\ tally[k].removes = 0 /\ tally[k].failed = 0 /\ Total(tally[k]) > 0)
        => /\ RowOf(k) # {}
           /\ \A r \in RowOf(k) : /\ r.received_likes = tally[k].addLikes
                                   /\ r.received_dislikes = tally[k].addDislikes

\* the same '+1' add was delivered twice and counted twice
C5_Witness ==
    \E k \in Keys :
        /\ AllIdle /\ tally[k].addLikes = 2 /\ tally[k].removes = 0 /\ tally[k].failed = 0
        /\ \E r \in RowOf(k) : r.received_likes = 2

\* a remove event is served right after the add event it matches
MatchingRemove(p) ==
    /\ Steps(p, "UpdateWrite") /\ ret'[p] = Nil
    /\ ev[p].Type = "reaction_removed"
    /\ last.Type = "reaction_added"
    /\ last.ItemUser = ev[p].ItemUser /\ last.Reaction = ev[p].Reaction

Restored == \E r \in members' : /\ r.id = last.ID
                                 /\ r.received_likes = last.likesBefore
                                 /\ r.received_dislikes = last.dislikesBefore

\* C6 as stated: an add followed immediately by its matching remove, whenever the two
\* are handled, leaves the record the add incremented as it was before the add.
C6_AddRemoveRestores ==
    [][\A p \in Procs : MatchingRemove(p) => Restored]_vars

\* C6 amended: the same, when the add and the remove are handled in the same period.
C6_AddRemoveRestoresSamePeriod ==
    [][\A p \in Procs : (MatchingRemove(p) /\ last.Date = monthYear[p]) => Restored]_vars

\* a '-1' add and then its remove were served in one period; the record is back at zero
C6_Witness ==
    /\ AllIdle
    /\ last.Type = "reaction_removed" /\ last.Reaction = ThumbsDown /\ last.dislikesBefore = 1
    /\ tally[<<last.ItemUser, last.Date>>].addDislikes = 1
    /\ tally[<<last.ItemUser, last.Date>>].removes = 1
    /\ \E r \in members : r.id = last.ID /\ r.received_dislikes = 0 /\ r.received_likes = 0

\* the two queries of FindLeaderboard return a row
LikesAnswered == lb.pc = "MostLikesReceived" /\ lb'.pc = "MostDislikesReceived"
DislikesAnswered == lb.pc = "MostDislikesReceived" /\ lb'.pc = "idle" /\ lb'.err = Nil

\* C7: the leaderboard returns every member of the period whose receivedLikes
\* (receivedDislikes) equals the period's maximum.
C7_AllTiedReturned ==
    [][/\ LikesAnswered
           => \A r \in MostLikesReceived(members, lb.date) :
                  r.id = lb'.MostReceivedLikesMember.ID
       /\ DislikesAnswered
           => \A r \in MostDislikesReceived(members, lb.date) :
                  r.id = lb'.MostReceivedDislikesMember.ID]_vars

\* C8: FindLeaderboard for a period without records fails with ErrNotFound.
C8_EmptyPeriodNotFound ==
    [][(lb.pc = "MostLikesReceived" /\ lb'.pc = "idle"
            /\ \A r \in members : r.month_year # lb.date)
        => lb'.err = ErrNotFound]_vars

\* C9: the most-liked (most-disliked) member returned is a record of the requested
\* period whose counter is >= that of every record of the period when it is read.
C9_LeaderIsMaxOfPeriod ==
    [][/\ LikesAnswered
           => /\ lb'.MostReceivedLikesMember.Date = lb.date
              /\ \E r \in members : /\ r.id = lb'.MostReceivedLikesMember.ID
                                      /\ r.month_year = lb.date
                                      /\ r.received_likes = lb'.MostReceivedLikesMember.ReceivedLikes
              /\ \A o \in members : o.month_year = lb.date
                     => o.received_likes <= lb'.MostReceivedLikesMember.ReceivedLikes
       /\ DislikesAnswered
           => /\ lb'.MostReceivedDislikesMember.Date = lb.date
              /\ \E r \in members : /\ r.id = lb'.MostReceivedDislikesMember.ID
                                      /\ r.month_year = lb.date
                                      /\ r.received_dislikes = lb'.MostReceivedDislikesMember.ReceivedDislikes
              /\ \A o \in members : o.month_year = lb.date
                     => o.received_dislikes <= lb'.MostReceivedDislikesMember.ReceivedDislikes]_vars

\* a leaderboard was returned for a period in which another member has fewer likes,
\* while a record of another period is in the store
C9_Witness ==
    /\ lb.pc = "idle" /\ lb.err = Nil /\ nRequests > 0
    /\ lb.MostReceivedLikesMember.ReceivedLikes >= 1
    /\ \E r \in members : /\ r.month_year = lb.date
                            /\ r.received_likes < lb.MostReceivedLikesMember.ReceivedLikes
    /\ \E r \in members : r.month_year # lb.date /\ r.received_likes >= 1

\* C10: a reaction event creates and changes only the record of the month the clock
\* showed when the event was handled, and a record it creates starts at zero.
C10_CurrentPeriod ==
    [][\A p \in Procs :
         /\ Steps(p, "UpdateWrite")
             => \A r \in members : r \notin members'
                    => /\ r.id = mem[p].ID
                       /\ TimeParse(r.month_year).err = Nil
                       /\ TimeParse(r.month_year).t = startedAt[p]
         /\ Steps(p, "CreateMember")
             => \A n \in members' : n \notin members
                    => /\ TimeParse(n.month_year).err = Nil
                       /\ TimeParse(n.month_year).t = startedAt[p]
                       /\ n.received_likes = 0 /\ n.received_dislikes = 0]_vars

\* after the clock moved on, an event for the same identity started a new record
C10_Witness ==
    /\ now = StartTime + 1
    /\ AllIdle
    /\ \E r1 \in members, r2 \in members :
          /\ r1.slack_uid = r2.slack_uid
          /\ r1.month_year = TimeFormat(StartTime) /\ r1.received_likes = 1
          /\ r2.month_year = TimeFormat(StartTime + 1) /\ r2.received_likes = 1
          /\ r2.created_at = StartTime + 1

\* the counter of record r that the event of p is about, and the other one
Counter(e, r) == IF e.Reaction = ThumbsUp THEN r.received_likes ELSE r.received_dislikes
OtherCounter(e, r) == IF e.Reaction = ThumbsUp THEN r.received_dislikes ELSE r.received_likes

\* C11: with events served one at a time, the write of a recognised event changes the
\* counter of its polarity, of the record of its target in the period it was handled in,
\* by 1 (by 0 for a remove at zero); the other counter and the counters of all other
\* records stay, and no other step of a handler changes a counter.
C11_OneCounterOneRecord ==
    [][/\ \A p \in Procs :
            (Steps(p, "UpdateWrite") /\ ret'[p] = Nil)
            => /\ \A r \in members : r.id # mem[p].ID => r \in members'
               /\ \A r \in members : r.id = mem[p].ID
                    => /\ r.slack_uid = ev[p].ItemUser
                       /\ r.month_year = TimeFormat(startedAt[p])
                       /\ \E n \in members' :
                            /\ n.id = r.id
                            /\ OtherCounter(ev[p], n) = OtherCounter(ev[p], r)
                            /\ Counter(ev[p], n) =
                                 IF ev[p].Type = "reaction_added" THEN Counter(ev[p], r) + 1
                                 ELSE IF Counter(ev[p], r) = 0 THEN 0
                                 ELSE Counter(ev[p], r) - 1
       /\ (\A p \in Procs : ~Steps(p, "UpdateWrite"))
            => \A r \in members : r \in members']_vars

\* a '-1' add was written to one record while the record of another member, with a
\* like of its own, stayed as it was
C11_Witness ==
    /\ AllIdle
    /\ last.Type = "reaction_added" /\ last.Reaction = ThumbsDown
    /\ \E r \in members : /\ r.id = last.ID
                            /\ r.received_dislikes = last.dislikesBefore + 1
                            /\ r.received_likes = last.likesBefore
    /\ \E o \in members : o.id # last.ID /\ o.received_likes = 1 /\ o.received_dislikes = 0

\* C12: a '+1' or '-1' reaction event whose ItemUser is empty or "USLACKBOT" returns nil
\* and changes no row; the handler goes on to no FindMember, CreateMember or UpdateMember.
C12_InvalidTargetDiscarded ==
    [][\A p \in Procs, e \in Events :
         (/\ e.Reaction \in {ThumbsUp, ThumbsDown}
          /\ e.ItemUser \in {"", "USLACKBOT"}
          /\ HandleReactionStart(p, e))
         => /\ ret'[p] = Nil
            /\ members' = members
            /\ pc' = pc
            /\ mem' = mem /\ um' = um]_vars

\* of two events that reached HandleReactionEvent one had a valid target and was counted;
\* the other was discarded and the record is as the first left it
C12_Witness ==
    /\ AllIdle
    /\ nEvents = 2
    /\ \E k \in Keys :
          /\ tally[k].addLikes = 1 /\ Total(tally[k]) = 1
          /\ \A o \in Keys : o # k => Total(tally[o]) = 0
          /\ \E r \in RowOf(k) : r.received_likes = 1
    /\ Cardinality(members) = 1

\* a CreateMember call of another caller than the handler returns
Created == nCreates' # nCreates

\* C13: CreateMember of a Member with an empty SlackUID returns ErrInvalid and adds no row.
C13_EmptySlackUIDInvalid ==
    [][(Created /\ cm'.m.SlackUID = "") => (cm'.err = ErrInvalid /\ members' = members)]_vars

\* CreateMember was refused for an empty SlackUID on a store that holds a record
C13_Witness ==
    /\ nCreates = 1 /\ cm.m.SlackUID = "" /\ cm.err = ErrInvalid
    /\ members # {}
    /\ \A r \in members : r.slack_uid # ""

\* C14: CreateMember for a (SlackUID, period) that has a row returns an error and leaves
\* every row, the existing one with its id and counters included, as it was.
C14_DuplicateCreateRefused ==
    [][/\ (Created /\ QFindMember(members, cm'.m.SlackUID, cm'.m.Date) # {})
            => (cm'.err # Nil /\ members' = members)
       /\ \A p \in Procs :
            (Steps(p, "CreateMember") /\ QFindMember(members, ev[p].ItemUser, monthYear[p]) # {})
            => (ret'[p] # Nil /\ members' = members)]_vars

\* CreateMember was refused for the pair of a record that has a like, and the record
\* still has it
C14_Witness ==
    /\ nCreates = 1 /\ cm.err = ErrConstraint
    /\ \E r \in members : /\ r.slack_uid = cm.m.SlackUID /\ r.month_year = cm.m.Date
                            /\ r.received_likes = 1
    /\ Cardinality(members) = 1

\* C17: after a CreateMember that succeeds, FindMemberByID of the assigned id and
\* FindMember of the member's SlackUID and date both return the created member.
C17_CreatedIsFound ==
    [][(Created /\ cm'.err = Nil)
        => /\ FindMemberByID(members', cm'.m.ID) = [err |-> Nil, m |-> cm'.m]
           /\ FindMember(members', cm'.m.SlackUID, cm'.m.Date) = [err |-> Nil, m |-> cm'.m]]_vars

\* a call of op by another caller than the handler begins (for the lookups: returns)
Called(op) == nCalls' # nCalls /\ svc'.op = op

\* C15: FindMemberByID of an id without a row, and FindMember of a (SlackUID, date)
\* without a row, return ErrNotFound also when the SlackUID has rows of other periods;
\* neither lookup changes a row.
C15_LookupsNotFound ==
    [][/\ (Called("FindMemberByID") /\ \A r \in members : r.id # svc'.id)
            => svc'.err = ErrNotFound
       /\ (Called("FindMember")
             /\ \A r \in members : ~(r.slack_uid = svc'.uid /\ r.month_year = svc'.date))
            => svc'.err = ErrNotFound
       /\ (Called("FindMemberByID") \/ Called("FindMember")) => members' = members]_vars

\* FindMember returned ErrNotFound for a SlackUID that has a record in another period
C15_Witness ==
    /\ svc.op = "FindMember" /\ svc.err = ErrNotFound
    /\ \E r \in members : r.slack_uid = svc.uid /\ r.month_year # svc.date
    /\ \A r \in members : ~(r.slack_uid = svc.uid /\ r.month_year = svc.date)

\* C16: UpdateMember of an id without a row returns ErrNotFound, goes on to no UPDATE
\* and changes no row.
C16_UpdateMissingNotFound ==
    [][(Called("UpdateMember") /\ \A r \in members : r.id # svc'.id)
        => (svc'.err = ErrNotFound /\ svc'.pc = "idle" /\ members' = members)]_vars

\* UpdateMember returned ErrNotFound on a store that holds a record with a like
C16_Witness ==
    /\ svc.op = "UpdateMember" /\ svc.pc = "idle" /\ svc.err = ErrNotFound
    /\ \A r \in members : r.id # svc.id
    /\ \E r \in members : r.received_likes = 1

\* the UPDATE of an UpdateMember call by another caller returns without error
Updated == svc.pc = "UpdateWrite" /\ svc'.pc = "idle" /\ svc'.err = Nil

\* C18: a successful UpdateMember(id, upd) leaves the row of id with the counter values
\* given in upd, returns the member of that row, and FindMemberByID(id) on the table as
\* the call left it returns the same member.
C18_UpdateReplaces ==
    [][Updated
        => /\ \E n \in members' :
                /\ n.id = svc.id
                /\ ~svc.upd.ReceivedLikes.nil => n.received_likes = svc.upd.ReceivedLikes.v
                /\ ~svc.upd.ReceivedDislikes.nil
                      => n.received_dislikes = svc.upd.ReceivedDislikes.v
                /\ svc'.m.ID = n.id
                /\ svc'.m.ReceivedLikes = n.received_likes
                /\ svc'.m.ReceivedDislikes = n.received_dislikes
                /\ svc'.m.UpdatedAt = n.updated_at
           /\ FindMemberByID(members', svc.id) = [err |-> Nil, m |-> svc'.m]]_vars

\* a record that an add event had brought to one like was set to 2 likes and 1 dislike
C18_Witness ==
    /\ AllIdle
    /\ svc.op = "UpdateMember" /\ svc.pc = "idle" /\ svc.err = Nil
    /\ ~svc.upd.ReceivedLikes.nil /\ ~svc.upd.ReceivedDislikes.nil
    /\ last.ID = svc.id /\ last.Type = "reaction_added" /\ last.Reaction = ThumbsUp
    /\ \E r \in members : /\ r.id = svc.id
                            /\ r.received_likes = svc.upd.ReceivedLikes.v
                            /\ r.received_dislikes = svc.upd.ReceivedDislikes.v
                            /\ r.received_likes = svc.m.ReceivedLikes

\* a FindLeaderboard request returns
Answered == lb.pc # "idle" /\ lb'.pc = "idle"

\* C19: no step of a FindLeaderboard request changes a row, also while a handler is
\* serving an event, and a request returns what the request before it returned when
\* both asked for the same date and no row was written since the first began.
C19_LeaderboardReadOnly ==
    [][/\ lb' # lb => members' = members
       /\ (Answered /\ lbSeen.runs = 2 /\ lbSeen.prev.date = lb.date)
            => LbResult(lb') = lbSeen.prev]_vars

\* two requests for a period with two records of equal dislikes returned the same
\* leaderboard while a handler was between its statements
C19_Witness ==
    /\ lb.pc = "idle" /\ lb.err = Nil /\ nRequests = 2
    /\ lbSeen.runs = 2 /\ lbSeen.prev = LbResult(lb)
    /\ tieOrder # Unknown
    /\ Cardinality(members) = 2
    /\ \E p \in Procs : pc[p] = "UpdateWrite"

\* C20: a monthly-update request posts at most one message, and only after FindLeaderboard
\* has returned the complete leaderboard for its channel and date; a request that returns
\* an error of ParseForm, of the channel or date value, of NewMonthYearString or of
\* FindLeaderboard has posted nothing.
C20_NoPartialPublish ==
    [][/\ mu'.posts <= 1
       /\ mu'.posts > mu.posts
            => /\ mu.posts = 0 /\ mu'.posts = 1
               /\ mu.pc = "FindLeaderboard" /\ lb.pc = "idle" /\ lb.err = Nil
               /\ mu.channel # ""
               /\ NewMonthYearString(mu.rawDate) = [err |-> Nil, my |-> lb.date]
               /\ lb.MostReceivedLikesMember.ID # 0 /\ lb.MostReceivedDislikesMember.ID # 0
       /\ (mu'.pc = "idle" /\ mu'.err \notin {Nil, ErrPost}) => mu'.posts = 0]_vars

\* a request for a period without records failed in FindLeaderboard, on a store that
\* holds records of another period, and nothing was posted
C20_Witness ==
    /\ nUpdates = 1 /\ mu.pc = "idle" /\ mu.err = ErrNoRows /\ mu.posts = 0
    /\ mu.channel = "C1" /\ mu.rawDate = EmptyPeriod
    /\ \E r \in members : r.received_likes = 1
\* a monthly-update request returns
MuReturned == mu'.pc = "idle" /\ (nUpdates' # nUpdates \/ mu.pc # "idle")

\* C21: a monthly-update request that fails (HandleMonthlyUpdate returns an error) is
\* answered with an error status, not with a success status.
C21_FailureGetsErrorResponse ==
    [][(MuReturned /\ mu'.err # Nil) => (mu'.status >= 400)]_vars
\* s is written <year>-<month>: four digits, "-", two digits of a month 01..12
IsYearMonth(s) ==
    /\ Len(s) = 7
    /\ \A i \in 1..4 : IsDigit(s[i])
    /\ s[5] = "-" /\ IsDigit(s[6]) /\ IsDigit(s[7])
    /\ (DigitVal(s[6]) * 10 + DigitVal(s[7])) \in 1..12

\* the month such a string names
YearMonthTime(s) ==
    (DigitVal(s[1]) * 1000 + DigitVal(s[2]) * 100 + DigitVal(s[3]) * 10 + DigitVal(s[4])) * 12
    + (DigitVal(s[6]) * 10 + DigitVal(s[7])) - 1

\* C22: a monthly-update request whose form parses and has a channel and a date written
\* <year>-<month> gets past NewMonthYearString, which yields the MonthYear of that month
\* without error, and FindLeaderboard is asked for that month.
C22_YearMonthAccepted ==
    [][(/\ nUpdates' # nUpdates
        /\ mu'.err # ErrForm /\ mu'.channel # "" /\ IsYearMonth(mu'.rawDate))
       => /\ NewMonthYearString(mu'.rawDate)
               = [err |-> Nil, my |-> NewMonthYear(YearMonthTime(mu'.rawDate))]
          /\ mu'.pc = "FindLeaderboard"
          /\ lb'.date = NewMonthYear(YearMonthTime(mu'.rawDate))]_vars
\* the handler serving p's event returns an error
Failed(p) == pc[p] # "idle" /\ ret'[p] # Nil /\ ret' # ret

\* C23: when a database call of FindMember, CreateMember or UpdateMember fails while p
\* serves an event, the handler returns that error and is done with the event: p is
\* idle without an event, so no further statement runs for it, and a handler only ever
\* starts on a newly delivered event, never on one that failed.
C23_FailedEventDropped ==
    [][\A p \in Procs :
         /\ (\E committed \in BOOLEAN : HandleReactionStoreFailure(p, committed))
              => ret'[p] = ErrStore
         /\ (pc[p] # "idle" /\ tally'[<<ev[p].ItemUser, monthYear[p]>>].failed
                                  > tally[<<ev[p].ItemUser, monthYear[p]>>].failed)
              => /\ pc'[p] = "idle" /\ ev'[p] = NoEvent
                 /\ mem'[p] = NoMember /\ um'[p] = NoMember
                 /\ ret'[p] # Nil
         /\ (pc[p] = "idle" /\ pc'[p] # "idle")
              => /\ nEvents' = nEvents + 1
                 /\ Total(tally'[<<ev'[p].ItemUser, monthYear'[p]>>])
                      = Total(tally[<<ev'[p].ItemUser, monthYear'[p]>>]) + 1]_vars

\* of two '+1' adds for one pair, one failed in the database and was dropped: the record
\* shows one like and nothing is left to run
C23_Witness ==
    /\ AllIdle
    /\ \E p \in Procs : ret[p] = ErrStore
    /\ \E k \in Keys :
          /\ tally[k].addLikes = 2 /\ tally[k].failed = 1 /\ Total(tally[k]) = 2
          /\ \E r \in RowOf(k) : r.received_likes = 1 /\ r.received_dislikes = 0
\* both callers have returned from an UpdateMember of the same id without error, one
\* having set only ReceivedLikes and the other only ReceivedDislikes
BothUpdated(a, b) ==
    /\ a.pc = "idle" /\ a.op = "UpdateMember" /\ a.err = Nil
    /\ b.pc = "idle" /\ b.op = "UpdateMember" /\ b.err = Nil
    /\ a.id = b.id
    /\ ~a.upd.ReceivedLikes.nil /\ a.upd.ReceivedDislikes.nil
    /\ b.upd.ReceivedLikes.nil /\ ~b.upd.ReceivedDislikes.nil

BothValues(a, b) ==
    \E r \in members : /\ r.id = a.id
                        /\ r.received_likes = a.upd.ReceivedLikes.v
                        /\ r.received_dislikes = b.upd.ReceivedDislikes.v

\* C24: after two UpdateMember calls on the same id, one setting only ReceivedLikes and
\* the other only ReceivedDislikes, however their statements interleaved, the record
\* holds both new values.
C24_BothUpdatesTakeEffect ==
    /\ BothUpdated(svc, svc2) => BothValues(svc, svc2)
    /\ BothUpdated(svc2, svc) => BothValues(svc2, svc)
\* C25: the two members a FindLeaderboard request returns are the most liked and the
\* most disliked of one state of the table, the one its first query read: a row that a
\* handler writes between the two queries does not show in the second.
C25_OneStoreState ==
    [][DislikesAnswered
        => /\ \E r \in MostLikesReceived(lbSeen.read, lb.date) :
                 genMemberToMember(r).m = lb'.MostReceivedLikesMember
           /\ \E r \in MostDislikesReceived(lbSeen.read, lb.date) :
                 genMemberToMember(r).m = lb'.MostReceivedDislikesMember]_vars
\* C26: the period of every record in the store is the canonical MM-YYYY string of a
\* calendar month, whatever CreateMember calls and reaction events came before.
C26_PeriodsCanonical ==
    \A r \in members :
        /\ TimeParse(r.month_year).err = Nil
        /\ TimeFormat(TimeParse(r.month_year).t) = r.month_year
\* the pair the event of p targets
KeyOf(p) == <<ev[p].ItemUser, monthYear[p]>>

\* C27: while only reaction events create records, the handler goes on to CreateMember
\* exactly when the pair of its event has no row, which is the case for the first
\* recognised event delivered for a (SlackUID, period) pair and, when no other handler
\* is running, for no later one; that CreateMember adds exactly one row, of that pair,
\* with both counters zero, and a CreateMember for a pair that has got a row meanwhile
\* adds none; a remove event that is the first of its pair leaves the row at zero; no
\* other step adds a row and no pair ever has two rows.
C27_CreatedByFirstEvent ==
    [][nCreates' = 0 =>
       /\ \A p \in Procs :
            /\ Steps(p, "FindMember")
                 => /\ pc'[p] = "CreateMember" <=> RowOf(KeyOf(p)) = {}
                    /\ Total(tally[KeyOf(p)]) = 1 => pc'[p] = "CreateMember"
                    /\ (Total(tally[KeyOf(p)]) > 1 /\ \A q \in Procs \ {p} : pc[q] = "idle")
                         => pc'[p] # "CreateMember"
            /\ Steps(p, "CreateMember")
                 => IF RowOf(KeyOf(p)) # {} THEN members' = members
                    ELSE \E n \in members' :
                           /\ n \notin members /\ members' = members \cup {n}
                           /\ n.slack_uid = ev[p].ItemUser /\ n.month_year = monthYear[p]
                           /\ n.received_likes = 0 /\ n.received_dislikes = 0
            /\ (Steps(p, "UpdateWrite") /\ ev[p].Type = "reaction_removed"
                  /\ Total(tally[KeyOf(p)]) = 1)
                 => \A r \in members' :
                      (r.slack_uid = ev[p].ItemUser /\ r.month_year = monthYear[p])
                      => (r.received_likes = 0 /\ r.received_dislikes = 0)
       /\ {r.id : r \in members'} # {r.id : r \in members}
            => \E p \in Procs : Steps(p, "CreateMember")
       /\ \A r1 \in members', r2 \in members' :
            (r1.slack_uid = r2.slack_uid /\ r1.month_year = r2.month_year) => r1.id = r2.id]_vars

\* a '+1' remove was the first event of its pair and made the record, at zero; the '+1'
\* add that followed found that record and made no other
C27_Witness ==
    /\ AllIdle
    /\ nCreates = 0
    /\ last.Type = "reaction_added" /\ last.Reaction = ThumbsUp
    /\ last.likesBefore = 0 /\ last.dislikesBefore = 0
    /\ tally[<<last.ItemUser, last.Date>>].removes = 1
    /\ tally[<<last.ItemUser, last.Date>>].failed = 0
    /\ Total(tally[<<last.ItemUser, last.Date>>]) = 2
    /\ Cardinality(RowOf(<<last.ItemUser, last.Date>>)) = 1
    /\ \A r \in RowOf(<<last.ItemUser, last.Date>>) : r.received_likes = 1
    /\ Cardinality(members) = 1
\* C28: a CreateMember that succeeds adds one row with received_likes = 0 and
\* received_dislikes = 0, whatever counters and ID the Member passed in carried, and
\* leaves that Member with the zero counters and the id of the row.
C28_CreatedAtZero ==
    [][(Created /\ cm'.err = Nil)
        => \E n \in members' :
             /\ n \notin members /\ members' = members \cup {n}
             /\ n.slack_uid = cm'.arg.SlackUID /\ n.month_year = cm'.arg.Date
             /\ n.received_likes = 0 /\ n.received_dislikes = 0
             /\ \A r \in members : r.id # n.id
             /\ cm'.m.ID = n.id
             /\ cm'.m.ReceivedLikes = 0 /\ cm'.m.ReceivedDislikes = 0
             /\ cm'.m.SlackUID = cm'.arg.SlackUID /\ cm'.m.Date = cm'.arg.Date]_vars

\* a Member passed in with ID 9, 4 likes and 6 dislikes came back with id 2 and zero
\* counters, next to a record that an event had made and brought to one like
C28_Witness ==
    /\ nCreates = 1 /\ cm.err = Nil
    /\ cm.arg.ID = 9 /\ cm.arg.ReceivedLikes = 4 /\ cm.arg.ReceivedDislikes = 6
    /\ cm.m.ID = 2 /\ cm.m.ReceivedLikes = 0 /\ cm.m.ReceivedDislikes = 0
    /\ \E r \in members : r.id = 2 /\ r.received_likes = 0 /\ r.received_dislikes = 0
    /\ \E r \in members : r.id = 1 /\ r.received_likes = 1
\* the UPDATE of an UpdateMember call by another caller than the handler runs
UpdateRuns == svc.pc = "UpdateWrite" /\ svc'.pc = "idle"

\* C29: UpdateMember(id, upd) changes a row only in its UPDATE, and there only the row
\* of id, of which id, slack_uid, month_year and created_at stay, as does each counter
\* whose field in upd is nil; every other row stays as it is.
C29_UpdateFrame ==
    [][/\ Called("UpdateMember") => members' = members
       /\ UpdateRuns
            => /\ \A r \in members : r.id # svc.id => r \in members'
               /\ \A r \in members : r.id = svc.id
                    => \E n \in members' :
                         /\ n.id = r.id /\ n.slack_uid = r.slack_uid
                         /\ n.month_year = r.month_year /\ n.created_at = r.created_at
                         /\ svc.upd.ReceivedLikes.nil => n.received_likes = r.received_likes
                         /\ svc.upd.ReceivedDislikes.nil
                              => n.received_dislikes = r.received_dislikes
               /\ Cardinality(members') = Cardinality(members)]_vars
\* C30: a step that is not a DeleteMember call, be it of a handler serving a reaction
\* event or of a FindLeaderboard request, keeps every row with its id, SlackUID and
\* period: the (SlackUID, period) pairs in the store only grow.
C30_NoRecordRemoved ==
    [][~Called("DeleteMember")
        => /\ \A r \in members : \E n \in members' :
                 n.id = r.id /\ n.slack_uid = r.slack_uid /\ n.month_year = r.month_year
           /\ {<<r.slack_uid, r.month_year>> : r \in members}
                 \subseteq {<<r.slack_uid, r.month_year>> : r \in members'}]_vars

\* after a leaderboard request and a remove event that left its record with both
\* counters at zero, that record and the other one are still in the store
C30_Witness ==
    /\ AllIdle
    /\ lb.pc = "idle" /\ lb.err = Nil /\ nRequests = 1
    /\ last.Type = "reaction_removed"
    /\ \E r \in members : r.id = last.ID /\ r.received_likes = 0 /\ r.received_dislikes = 0
    /\ Cardinality(members) = 2
\* what the single event counted in t leaves in the counters of its record
AloneLikes(t) == t.addLikes
AloneDislikes(t) == t.addDislikes

\* a handler is serving an event of pair k
Serving(k) == \E p \in Procs : pc[p] # "idle" /\ KeyOf(p) = k

\* C31: while only reaction events create records, a pair for which exactly one event
\* was delivered has, once that event is served, the record that event makes when it is
\* handled alone (an add: 1 in its counter; a remove: both at zero), whatever events for
\* other pairs were served before it, after it or interleaved with it; the event
\* returns no error.
C31_IndependentTargets ==
    nCreates = 0 =>
        \A k \in Keys :
            (Total(tally[k]) = 1 /\ ~Serving(k))
            => /\ tally[k].failed = 0
               /\ Cardinality(RowOf(k)) = 1
               /\ \A r \in RowOf(k) : /\ r.received_likes = AloneLikes(tally[k])
                                       /\ r.received_dislikes = AloneDislikes(tally[k])

\* the '+1' add for one member was served to the end while the second handler, started
\* during it, is still before its UPDATE for a '-1' add for another member of the period
C31_Witness ==
    /\ nCreates = 0 /\ nEvents = 2
    /\ pc[1] = "idle" /\ pc[2] = "UpdateWrite"
    /\ ev[2].Type = "reaction_added" /\ ev[2].Reaction = ThumbsDown
    /\ \E k \in Keys :
          /\ k[1] # ev[2].ItemUser /\ k[2] = monthYear[2]
          /\ tally[k].addLikes = 1 /\ Total(tally[k]) = 1
          /\ \E r \in RowOf(k) : r.received_likes = 1 /\ r.received_dislikes = 0
    /\ Cardinality(members) = 2
\* a row is added by a CreateMember of a handler or of another caller
RowCreated == Created \/ \E p \in Procs : Steps(p, "CreateMember")

\* C32: a DeleteMember(id) that returns nil for an id that has a row leaves the store
\* without it: FindMemberByID(id) and FindMember of the row's SlackUID and period return
\* ErrNotFound on the table as the call left it, and no step but a CreateMember brings
\* back an id or a (SlackUID, period) pair that has no row.
C32_DeletedIsGone ==
    [][/\ (Called("DeleteMember") /\ svc'.err = Nil)
            => \A r \in members : r.id = svc'.id
                 => /\ FindMemberByID(members', r.id) = [err |-> ErrNotFound, m |-> NoMember]
                    /\ FindMember(members', r.slack_uid, r.month_year)
                         = [err |-> ErrNotFound, m |-> NoMember]
       /\ ~RowCreated
            => \A n \in members' :
                 \E r \in members : r.id = n.id /\ r.slack_uid = n.slack_uid
                                    /\ r.month_year = n.month_year]_vars

\* the record an event had created was deleted before the event's UpdateMember was
\* through: UpdateMember found no row, the event returned the error and the store is empty
C32_Witness ==
    /\ AllIdle
    /\ svc.op = "DeleteMember" /\ svc.err = Nil /\ svc.id = 1
    /\ \E p \in Procs : ret[p] \in {ErrNoRows, ErrNotFound}
    /\ members = {}
\* C33: a row is created with updated_at = created_at; no step changes the created_at of
\* a row; every UPDATE of UpdateMember leaves updated_at >= what it was; in every state
\* updated_at >= created_at.
C33_TimestampsOrdered ==
    [][/\ \A n \in members' :
            (\A r \in members : r.id # n.id) => n.updated_at = n.created_at
       /\ \A r \in members, n \in members' :
            n.id = r.id => (n.created_at = r.created_at /\ n.updated_at >= r.updated_at)
       /\ \A n \in members' : n.updated_at >= n.created_at]_vars
\* C34: a step of the handler serving an event for target T changes or adds only rows
\* whose slack_uid is T, however DeleteMember and CreateMember calls fall between its
\* statements: the id it read still denotes T's record when it writes.
C34_OnlyOwnRecord ==
    [][\A p \in Procs :
         (pc[p] # "idle" /\ pc'[p] # pc[p])
         => /\ \A r \in members : r \notin members' => r.slack_uid = ev[p].ItemUser
            /\ \A n \in members' : n \notin members => n.slack_uid = ev[p].ItemUser]_vars

\* the header of req is the signature of the body that arrived, made with the signing secret
Verified(req) ==
    /\ req.header # NoHeader
    /\ req.header[1] = signingSecret
    /\ req.header[2] = req.body

\* C35: a POST /events request whose signature verification fails returns an error and
\* creates or modifies no record and starts no reconciliation; a reconciliation is started
\* only by a request whose signature was verified, for the event of that request.
C35_UnverifiedChangesNothing ==
    [][/\ \A p \in Procs, req \in Requests :
            (~Verified(req) /\ HandleEvents(p, req))
            => /\ ret'[p] \in {ErrVerifier, ErrUnauthorized}
               /\ members' = members
               /\ pc' = pc /\ ev' = ev /\ mem' = mem /\ um' = um
       /\ \A p \in Procs :
            (pc[p] = "idle" /\ pc'[p] # "idle")
            => \E req \in Requests : Verified(req) /\ HandleEvents(p, req) /\ ev'[p] = req.body]_vars

\* a verified '+1' event was reconciled, then a request with a wrong signature was turned
\* away and the record is as the event left it
C35_Witness ==
    /\ AllIdle
    /\ nEvents = 1
    /\ ret[1] = ErrUnauthorized
    /\ \E r \in members : r.slack_uid = "U1" /\ r.received_likes = 1 /\ r.received_dislikes = 0
    /\ Cardinality(members) = 1

\* C36: a reaction_added or reaction_removed event whose reaction is neither "+1" nor "-1"
\* returns nil and leaves the store unchanged: no row is created or changed, and the
\* handler goes on to no FindMember, CreateMember or UpdateMember.
C36_OtherReactionIgnored ==
    [][\A p \in Procs, e \in Events :
         (/\ e.Reaction # ThumbsUp /\ e.Reaction # ThumbsDown
          /\ HandleReactionStart(p, e))
         => /\ ret'[p] = Nil
            /\ members' = members
            /\ pc' = pc /\ ev' = ev
            /\ mem' = mem /\ um' = um
            /\ tally' = tally]_vars

\* every '+1'/'-1' event the handler was given was for one target, failed at the store and
\* left no row; the nil it returned last is that of an event with another reaction, and
\* there is no row
C36_Witness ==
    /\ AllIdle
    /\ nEvents = MaxEvents
    /\ \E k \in Keys : tally[k].failed = MaxEvents
    /\ ret[1] = Nil
    /\ members = {}

\* C37: a reaction that a user adds to or removes from an item of their own changes no
\* counter and creates no record: while every event delivered is such a reaction, no step
\* changes the rows.
C37_SelfReactionIgnored == [][members' = members]_vars

====
